---- MODULE Spec2Model ----
(***************************************************************************)
(* RAMSES frontend (yt/frontends/ramses/data_structures.py): the domain    *)
(* file reader (RAMSESDomainFile), the construction of the shared octree   *)
(* (RAMSESGeometryHandler._initialize_oct_handler) and the selection and   *)
(* chunking layer.                                                         *)
(*                                                                         *)
(* File positions are counted in framed Fortran records, as a pair         *)
(* <<records, stray bytes>>; a reader's cursor always sits on a record     *)
(* boundary.                                                               *)
(***************************************************************************)
EXTENDS Integers, Sequences, FiniteSets, TLC

\* ------------------------------------------------------------- bounds
MaxCpu == 2
MaxLevel == 1
MaxBoundary == 1
MaxBatches == 2
MaxRecursion == 2

\* Grid counts a non-empty (level, owner) batch of a file may declare.
GridCounts == {1, 2}

None == "None"

\* No _read_amr call in progress, and no pair handled yet.
NoRead == [dom |-> 0, level |-> 0, cpu |-> 0, cursor |-> 0, nrecs |-> 0,
           tail |-> 0]
NoPair == [dom |-> 0, level |-> 0, cpu |-> 0, ng |-> 0, raised |-> FALSE,
           before |-> 0, after |-> 0, added |-> FALSE]

\* A mask is a boolean array, held as the set of the indices it selects; NoMask
\* is Python's None. The class attributes _last_mask and _last_selector_id
\* start as None; id() of a selector is never None.
NoMask == [none |-> TRUE, bits |-> {}]
NoId == 0

\* The container before RAMSESOctreeContainer(...) is constructed.
NoContainer == [allocated |-> <<>>, nalloc |-> 0, adds |-> <<>>, nocts |-> 0]

\* ------------------------------------------------------------- helpers
RECURSIVE SumSeq(_)
SumSeq(s) == IF s = <<>> THEN 0 ELSE Head(s) + SumSeq(Tail(s))

RECURSIVE SubsetsUpTo(_, _)
SubsetsUpTo(S, k) ==
    IF k = 0 THEN {{}}
    ELSE LET P == SubsetsUpTo(S, k - 1)
         IN P \cup {p \cup {x} : p \in P, x \in S}

\* ------------------------------------------------- header and file layout
\* The fields of the header schema this file uses (definitions.ramses_header);
\* fpu.read_attrs reads one framed record per field.
SchemaFields == <<"ncpu", "nx", "nlevelmax", "nboundary", "numbl">>

\* Framed records of the header section: the schema, one skip, with boundaries
\* two skips and ngridbound, then free_mem, ordering and four skips.
HeaderRecords(nboundary) ==
    Len(SchemaFields) + 1 + (IF nboundary > 0 THEN 2 + 1 ELSE 0) + 1 + 1 + 4

BatchRecordsWithoutRmap == 1 + 2 + 3 + 1 + 6 + 8 + 8

\* Framed records of one non-empty (level, owner) batch: ind, 2 skips, 3 position
\* vectors, parents, 6 skips, 8 children, 8 cpu_map and 8 rmap vectors.
BatchRecords == 1 + 2 + 3 + 1 + 6 + 8 + 8 + 8

Levels(h) == 0 .. (h.nlevelmax - 1)
Owners(h) == 0 .. (h.nboundary + h.ncpu - 1)

\* The header a simulation of (ncpu, nlevelmax, nboundary) writes for a domain
\* whose grid section holds cnt[<<l, c>>] grids for each level l and owner c.
MakeHeader(ncpu, nlevelmax, nboundary, cnt) ==
    [ncpu |-> ncpu, nlevelmax |-> nlevelmax, nboundary |-> nboundary,
     numbl |-> [lc \in (0 .. nlevelmax - 1) \X (0 .. ncpu - 1) |-> cnt[lc]],
     ngridbound |-> [k \in 0 .. (nboundary * nlevelmax - 1) |->
                       cnt[<<k \div nboundary, ncpu + (k % nboundary)>>]]]

\* What the header's own arrays say about (level, owner): numbl for a real
\* domain, ngridbound at owner - ncpu + nboundary * level for a boundary one.
DeclaredCount(h, c, l) ==
    IF c < h.ncpu THEN h.numbl[<<l, c>>]
    ELSE h.ngridbound[c - h.ncpu + h.nboundary * l]

\* Framed records of the grid section the header determines.
LayoutRecords(h) ==
    BatchRecords * Cardinality({lc \in Levels(h) \X Owners(h) :
                                   DeclaredCount(h, lc[2], lc[1]) > 0})

\* ------------------------------------------------------------- the code
\* hvals['numbl'][:, self.domain_id - 1].sum()
RECURSIVE ColumnSum(_, _, _)
ColumnSum(numbl, col, nlev) ==
    IF nlev = 0 THEN 0
    ELSE numbl[<<nlev - 1, col>>] + ColumnSum(numbl, col, nlev - 1)

LocalOctCount(h, domain_id) == ColumnSum(h.numbl, domain_id - 1, h.nlevelmax)

\* RAMSESDomainFile.__init__ and _read_amr_header on a readable header.
DomainFile(domain_id, file) ==
    [domain_id |-> domain_id,
     amr_header |-> file.hdr,
     amr_offset |-> HeaderRecords(file.hdr.nboundary),
     local_oct_count |-> LocalOctCount(file.hdr, domain_id),
     last_mask |-> NoMask,
     last_selector_id |-> NoId]

\* Whether the name ngridbound is bound where _read_amr._ng evaluates it: it is
\* assigned only as a local of _read_amr_header.
NgridboundBound == FALSE

\* _read_amr._ng: the grid count of (owner c, level l), or the NameError of the
\* unbound ngridbound.
Ng(h, c, l) ==
    IF c < h.ncpu
    THEN [raised |-> FALSE, ng |-> h.numbl[<<l, c>>]]
    ELSE IF NgridboundBound
         THEN [raised |-> FALSE,
               ng |-> h.ngridbound[c - h.ncpu + h.nboundary * l]]
         ELSE [raised |-> TRUE, ng |-> 0]

\* if cpu + 1 >= self.domain_id
Accepts(cpu, domain_id) == cpu + 1 >= domain_id

\* fpu.read_attrs, read_vector and skip over the header section succeed when
\* its record markers are sound.
HeaderReadable(hdr_ok) == hdr_ok

\* fpu.read_vector / fpu.skip of n framed records from record position cursor
\* of a file holding `have` complete records: they fail at the end of file.
CanRead(cursor, n, have) == cursor + n <= have

AllocListReversed(doms) ==
    [i \in 1 .. Len(doms) |-> doms[Len(doms) + 1 - i].local_oct_count]

\* [dom.local_oct_count for dom in self.domains]
AllocList(doms) == [i \in 1 .. Len(doms) |-> doms[i].local_oct_count]

\* sum(dom.local_oct_count for dom in self.domains)
TotalOcts(doms) == SumSeq(AllocList(doms))

\* assert(cur == end)
CursorAtEnd(cur, end) == cur = end

\* The division of a Python integer, which raises on a zero divisor.
PythonTrueDivide(a, b) ==
    IF b = 0
    THEN [raised |-> TRUE, value |-> "nan"]
    ELSE [raised |-> FALSE, value |-> <<a, b>>]

\* total_octs / float(self.oct_handler.nocts): total_octs is a numpy integer
\* (the sum of ndarray.sum() results), whose division by 0.0 yields inf or nan
\* and does not raise.
TrueDivide(a, b) ==
    IF b = 0
    THEN [raised |-> FALSE, value |-> IF a = 0 THEN "nan" ELSE "inf"]
    ELSE [raised |-> FALSE, value |-> <<a, b>>]

\* ------------------------------------------------------------- state
VARIABLES
    pf,           \* the snapshot: ncpu and the header of each domain file
    domains,      \* self.domains, the readers built so far
    oct_handler,  \* the shared container: allocation, add calls, nocts
    num_grids,    \* self.num_grids (-1: not set yet)
    rd,           \* the _read_amr call in progress: reader, level, cpu, cursor,
                  \* and the grid section found in the file it opened
    done_reads,   \* the _read_amr calls that returned, in order, with cur and end
    last,         \* the last (level, owner) pair a _read_amr handled
    stdout,       \* lines printed by _initialize_oct_handler
    error,        \* the exception that ended construction, or None
    pc,
    selectors,    \* the selector objects, by id(): what each selects now
    call,         \* the last select or count call on a reader and its result
    returned,     \* per reader, the mask its last select call returned and the
                  \* selector its last fill_mask call was made for
    dobjs,        \* the data objects: selector, _chunk_info, size, _current_chunk
    chunk_call    \* the last call into the chunking layer and its result

vars == <<pf, domains, oct_handler, num_grids, rd, done_reads, last, stdout,
          error, pc, selectors, call, returned, dobjs, chunk_call>>

\* The state of the construction other than the readers, and of the queries.
cvars == <<pf, oct_handler, num_grids, rd, done_reads, last, stdout, error, pc>>
svars == <<selectors, call, returned>>
kvars == <<dobjs, chunk_call>>

\* ------------------------------------------------------------- selectors
\* The live selector objects, named by their id().
SelectorIds == {1, 2}

\* What a selector selects: every oct, the first oct of each domain, or nothing.
Kinds == {"all", "first", "none"}

Selects(kind, i) ==
    CASE kind = "all" -> TRUE
      [] kind = "first" -> i = 1
      [] OTHER -> FALSE

NoReturn == [mask |-> NoMask, computed_for |-> NoId]

NoCall == [op |-> "none", dom |-> 0, sel |-> 0, hit |-> FALSE, fills |-> 0,
           ret |-> NoMask, count |-> 0, diverged |-> FALSE]

\* A data object before its first chunking: its selector, no _chunk_info, no
\* size (-1), no _current_chunk; selected_as records what the selector selected
\* when the selection was resolved.
NoChunk == [set |-> FALSE, objs |-> <<>>, size |-> 0]
NewDataObject(sel) ==
    [selector |-> sel, has_chunk_info |-> FALSE, chunk_info |-> <<>>,
     size |-> -1, shape |-> <<>>, current_chunk |-> NoChunk,
     selected_as |-> "unresolved"]

\* No Domain Subset, and no answer of a Domain Subset query.
NoSubset == [domain |-> 0, indices |-> <<>>]
NoResult == [query |-> "none", domain |-> 0, indices |-> <<>>]

NoChunkCall == [op |-> "none", dobj |-> 0, outcome |-> "none",
                chunks |-> <<>>, queries |-> 0, count |-> 0,
                subset |-> NoSubset, result |-> NoResult]

\* ------------------------------------------------------------- inputs
Slots(nlevelmax, nowners) == (0 .. nlevelmax - 1) \X (0 .. nowners - 1)

\* The grid sections a file with header h may be found to hold when it is
\* opened: the complete framed records after the header and stray trailing
\* bytes. The layout of the header, or that layout cut short (by a record, or
\* inside one), or followed by bytes or by a record.
ExactSection(h) == [nrecs |-> LayoutRecords(h), tail |-> 0]

GridSections(h) ==
    {ExactSection(h)} \cup
    {[nrecs |-> LayoutRecords(h) + x[1], tail |-> x[2]] :
        x \in {y \in {<<-1, 0>>, <<-1, 1>>, <<0, 1>>, <<1, 0>>} :
                 LayoutRecords(h) + y[1] >= 0}}

\* The snapshot of a run of (ncpu, nlevelmax, nboundary) whose files hold the
\* batches `chosen` (file, level, owner) with the grid counts g.
Snapshot(ncpu, nlevelmax, nboundary, chosen, g) ==
    [ncpu |-> ncpu,
     files |-> [d \in 1 .. ncpu |->
        LET cnt == [lc \in Slots(nlevelmax, ncpu + nboundary) |->
                      IF <<d, lc>> \in chosen THEN g[<<d, lc>>] ELSE 0]
        IN [hdr |-> MakeHeader(ncpu, nlevelmax, nboundary, cnt)]]]

Init ==
    /\ \E ncpu \in 1 .. MaxCpu, nlevelmax \in 1 .. MaxLevel,
          nboundary \in 0 .. MaxBoundary :
         \E chosen \in SubsetsUpTo((1 .. ncpu) \X Slots(nlevelmax, ncpu + nboundary),
                                   MaxBatches) :
           \E g \in [chosen -> GridCounts] :
             pf = Snapshot(ncpu, nlevelmax, nboundary, chosen, g)
    /\ domains = <<>>
    /\ oct_handler = NoContainer
    /\ num_grids = -1
    /\ rd = NoRead
    /\ done_reads = <<>>
    /\ last = NoPair
    /\ stdout = <<>>
    /\ error = None
    /\ pc = "construct"
    /\ selectors = [s \in SelectorIds |-> "all"]
    /\ call = NoCall
    /\ returned = [d \in 1 .. pf.ncpu |-> NoReturn]
    /\ dobjs = [o \in SelectorIds |-> NewDataObject(o)]
    /\ chunk_call = NoChunkCall

\* ------------------------------------------------------------- actions
FailAndCarryOn(exc) == /\ pc' = pc
                       /\ error' = exc

\* An exception leaves _initialize_oct_handler: nothing in it catches one.
Fail(exc) == /\ pc' = "failed"
             /\ error' = exc

\* One element of the comprehension building self.domains:
\* RAMSESDomainFile(self.parameter_file, i + 1), which parses the header.
ConstructDomain ==
    /\ pc = "construct"
    /\ Len(domains) < pf.ncpu
    /\ LET i == Len(domains)
           file == pf.files[i + 1]
       IN \E hdr_ok \in BOOLEAN :
            IF HeaderReadable(hdr_ok)
            THEN /\ domains' = Append(domains, DomainFile(i + 1, file))
                 /\ UNCHANGED <<pc, error>>
            ELSE /\ Fail("CorruptHeaderError")
                 /\ UNCHANGED domains
    /\ UNCHANGED <<pf, oct_handler, num_grids, rd, done_reads, last, stdout>>
    /\ UNCHANGED <<svars, kvars>>

\* total_octs, num_grids, the container and allocate_domains.
AllocateDomains ==
    /\ pc = "construct"
    /\ Len(domains) = pf.ncpu
    /\ num_grids' = TotalOcts(domains)
    /\ oct_handler' = [allocated |-> AllocList(domains), nalloc |-> 1,
                       adds |-> <<>>, nocts |-> 0]
    /\ pc' = "read_amr"
    /\ UNCHANGED <<pf, domains, rd, done_reads, last, stdout, error>>
    /\ UNCHANGED <<svars, kvars>>

\* dom._read_amr(self.oct_handler) for the next reader: open and seek.
BeginReadAmr ==
    /\ pc = "read_amr"
    /\ rd = NoRead
    /\ Len(done_reads) < Len(domains)
    /\ LET dom == domains[Len(done_reads) + 1]
       IN \E sec \in GridSections(dom.amr_header) :
            rd' = [dom |-> dom.domain_id, level |-> 0, cpu |-> 0,
                   cursor |-> dom.amr_offset,
                   nrecs |-> sec.nrecs, tail |-> sec.tail]
    /\ last' = NoPair
    /\ UNCHANGED <<pf, domains, oct_handler, num_grids, done_reads, stdout,
                   error, pc>>
    /\ UNCHANGED <<svars, kvars>>

\* The loop variables after the pair (level, cpu).
NextPair(h, level, cpu) ==
    IF cpu + 1 < h.nboundary + h.ncpu
    THEN [level |-> level, cpu |-> cpu + 1]
    ELSE [level |-> level + 1, cpu |-> 0]

\* One iteration of the body of the two loops of _read_amr.
ReadAmrPair ==
    /\ pc = "read_amr"
    /\ rd # NoRead
    /\ LET dom == domains[rd.dom]
           h == dom.amr_header
           have == dom.amr_offset + rd.nrecs
           n == Ng(h, rd.cpu, rd.level)
           nxt == NextPair(h, rd.level, rd.cpu)
       IN /\ rd.level < h.nlevelmax
          /\ IF n.raised
             THEN /\ Fail("NameError")
                  /\ last' = [dom |-> rd.dom, level |-> rd.level,
                              cpu |-> rd.cpu, ng |-> 0, raised |-> TRUE, before |-> rd.cursor,
                              after |-> rd.cursor, added |-> FALSE]
                  /\ UNCHANGED <<rd, oct_handler>>
             ELSE IF n.ng = 0
             THEN /\ rd' = [rd EXCEPT !.level = nxt.level, !.cpu = nxt.cpu]
                  /\ last' = [dom |-> rd.dom, level |-> rd.level,
                              cpu |-> rd.cpu, ng |-> 0, raised |-> FALSE, before |-> rd.cursor,
                              after |-> rd.cursor, added |-> FALSE]
                  /\ UNCHANGED <<oct_handler, error, pc>>
             ELSE IF ~CanRead(rd.cursor, BatchRecords, have)
             THEN /\ Fail("EndOfFileError")
                  /\ last' = [dom |-> rd.dom, level |-> rd.level,
                              cpu |-> rd.cpu, ng |-> n.ng, raised |-> FALSE, before |-> rd.cursor,
                              after |-> have, added |-> FALSE]
                  /\ UNCHANGED <<rd, oct_handler>>
             ELSE /\ rd' = [rd EXCEPT !.level = nxt.level, !.cpu = nxt.cpu,
                                      !.cursor = rd.cursor + BatchRecords]
                  /\ last' = [dom |-> rd.dom, level |-> rd.level,
                              cpu |-> rd.cpu, ng |-> n.ng, raised |-> FALSE, before |-> rd.cursor,
                              after |-> rd.cursor + BatchRecords,
                              added |-> Accepts(rd.cpu, dom.domain_id)]
                  /\ oct_handler' =
                       IF Accepts(rd.cpu, dom.domain_id)
                       THEN [oct_handler EXCEPT !.adds = Append(@,
                               [by |-> dom.domain_id, domain |-> rd.cpu + 1,
                                level |-> rd.level, ng |-> n.ng])]
                       ELSE oct_handler
                  /\ UNCHANGED <<error, pc>>
    /\ UNCHANGED <<pf, domains, num_grids, done_reads, stdout>>
    /\ UNCHANGED <<svars, kvars>>

\* After the loops: cur = f.tell(), end = the file's size, assert(cur == end).
EndReadAmr ==
    /\ pc = "read_amr"
    /\ rd # NoRead
    /\ LET dom == domains[rd.dom]
           cur == <<rd.cursor, 0>>
           end == <<dom.amr_offset + rd.nrecs, rd.tail>>
       IN /\ rd.level = dom.amr_header.nlevelmax
          /\ IF CursorAtEnd(cur, end)
             THEN /\ done_reads' = Append(done_reads,
                                     [dom |-> rd.dom, cur |-> cur, end |-> end])
                  /\ rd' = NoRead
                  /\ UNCHANGED <<error, pc>>
             ELSE /\ Fail("AssertionError")
                  /\ UNCHANGED <<rd, done_reads>>
    /\ UNCHANGED <<pf, domains, oct_handler, num_grids, last, stdout>>
    /\ UNCHANGED <<svars, kvars>>

\* The octs the container may report after its add calls: it merges octs it is
\* handed more than once, so any count up to the octs submitted.
Submitted(adds) == SumSeq([i \in 1 .. Len(adds) |-> adds[i].ng])

\* The two print statements that end _initialize_oct_handler.
Report ==
    /\ pc = "read_amr"
    /\ rd = NoRead
    /\ Len(done_reads) = Len(domains)
    /\ \E nocts \in 0 .. Submitted(oct_handler.adds) :
         LET total_octs == TotalOcts(domains)
             q == TrueDivide(total_octs, nocts)
         IN /\ oct_handler' = [oct_handler EXCEPT !.nocts = nocts]
            /\ IF q.raised
               THEN /\ stdout' = <<<<"TOTAL", total_octs, nocts>>>>
                    /\ Fail("ZeroDivisionError")
               ELSE /\ stdout' = <<<<"TOTAL", total_octs, nocts>>,
                                   <<"TOTAL", q.value>>>>
                    /\ pc' = "done"
                    /\ UNCHANGED error
    /\ UNCHANGED <<pf, domains, num_grids, rd, done_reads, last>>
    /\ UNCHANGED <<svars, kvars>>

Next ==
    \/ ConstructDomain
    \/ AllocateDomains
    \/ BeginReadAmr
    \/ ReadAmrPair
    \/ EndReadAmr
    \/ Report

Spec == Init /\ [][Next]_vars

\* ------------------------------------------------- after initialize
\* A snapshot of one level and no boundary domains in which the file of each
\* domain d holds its own n[d] grids and no replica of another domain's.
OwnOnly(ncpu, n) ==
    Snapshot(ncpu, 1, 0, {<<d, <<0, d - 1>>>> : d \in {e \in 1 .. ncpu : n[e] > 0}},
             [x \in {<<d, <<0, d - 1>>>> : d \in {e \in 1 .. ncpu : n[e] > 0}} |->
                n[x[1]]])

Readers(snapshot) ==
    [d \in 1 .. snapshot.ncpu |-> DomainFile(d, snapshot.files[d])]

HasOcts(reader) == reader.local_oct_count > 0

\* The add calls of a completed initialize of such a snapshot.
OwnAdds(snapshot) ==
    LET own == SelectSeq(Readers(snapshot), HasOcts)
    IN [i \in 1 .. Len(own) |->
          [by |-> own[i].domain_id, domain |-> own[i].domain_id, level |-> 0,
           ng |-> own[i].local_oct_count]]

\* The state a completed initialize of such a snapshot leaves, the container
\* reporting every oct it was handed.
AfterInitialize(snapshot) ==
    LET doms == Readers(snapshot)
        adds == OwnAdds(snapshot)
        total == TotalOcts(doms)
        lastdom == doms[snapshot.ncpu]
        lastng == lastdom.local_oct_count
    IN /\ pf = snapshot
       /\ domains = doms
       /\ oct_handler = [allocated |-> AllocList(doms), nalloc |-> 1,
                         adds |-> adds, nocts |-> Submitted(adds)]
       /\ num_grids = total
       /\ rd = NoRead
       /\ done_reads = [d \in 1 .. snapshot.ncpu |->
            LET end == <<doms[d].amr_offset + LayoutRecords(doms[d].amr_header), 0>>
            IN [dom |-> d, cur |-> end, end |-> end]]
       /\ last = [dom |-> snapshot.ncpu, level |-> 0, cpu |-> snapshot.ncpu - 1,
                  ng |-> lastng, raised |-> FALSE,
                  before |-> lastdom.amr_offset,
                  after |-> lastdom.amr_offset +
                            (IF lastng > 0 THEN BatchRecords ELSE 0),
                  added |-> lastng > 0]
       /\ stdout = <<<<"TOTAL", total, Submitted(adds)>>,
                     <<"TOTAL", TrueDivide(total, Submitted(adds)).value>>>>
       /\ error = None
       /\ pc = "done"

QueryInit ==
    /\ \E ncpu \in 1 .. MaxCpu :
         \E n \in [1 .. ncpu -> {0} \cup GridCounts] :
           AfterInitialize(OwnOnly(ncpu, n))
    /\ selectors \in [SelectorIds -> Kinds]
    /\ call = NoCall
    /\ returned = [d \in 1 .. pf.ncpu |-> NoReturn]
    /\ dobjs = [o \in SelectorIds |-> NewDataObject(o)]
    /\ chunk_call = NoChunkCall

\* ------------------------------------------------- select and count
\* The octs of a reader's domain.
DomainOcts(reader) == 1 .. reader.local_oct_count

\* selector.fill_mask(domain): the mask of the domain's octs the selector
\* selects now, None when it selects none of them.
FillMask(kind, reader) ==
    LET bits == {i \in DomainOcts(reader) : Selects(kind, i)}
    IN IF bits = {} THEN NoMask ELSE [none |-> FALSE, bits |-> bits]

\* self._last_mask.sum(), behind the test for None.
PopCount(mask) == IF mask.none THEN 0 ELSE Cardinality(mask.bits)

CacheNever(sel, last_id) == FALSE

\* id(selector) == self._last_selector_id
CacheHit(sel, last_id) == sel = last_id

SelectForgetsId(reader, sel) ==
    IF CacheHit(sel, reader.last_selector_id)
    THEN [reader |-> reader, ret |-> reader.last_mask, fills |-> 0]
    ELSE LET m == FillMask(selectors[sel], reader)
         IN [reader |-> [reader EXCEPT !.last_mask = m],
             ret |-> m, fills |-> 1]

SelectReopensFile(reader, sel) ==
    IF CacheHit(sel, reader.last_selector_id)
    THEN [reader |-> reader, ret |-> reader.last_mask, fills |-> 0]
    ELSE LET m == FillMask(selectors[sel], reader)
         IN [reader |-> [reader EXCEPT !.last_mask = m,
                                       !.last_selector_id = sel,
                                       !.amr_offset = 0],
             ret |-> m, fills |-> 1]

\* RAMSESDomainFile.select: the reader afterwards, the mask returned and the
\* number of fill_mask calls made.
SelectResult(reader, sel) ==
    IF CacheHit(sel, reader.last_selector_id)
    THEN [reader |-> reader, ret |-> reader.last_mask, fills |-> 0]
    ELSE LET m == FillMask(selectors[sel], reader)
         IN [reader |-> [reader EXCEPT !.last_mask = m,
                                       !.last_selector_id = sel],
             ret |-> m, fills |-> 1]

\* RAMSESDomainFile.count, which calls select and then itself again; depth
\* frames of recursion are left before the interpreter gives up.
RECURSIVE CountResult(_, _, _)
CountResult(reader, sel, depth) ==
    IF CacheHit(sel, reader.last_selector_id)
    THEN [reader |-> reader, count |-> PopCount(reader.last_mask), fills |-> 0,
          selected |-> FALSE, ret |-> NoMask, diverged |-> FALSE]
    ELSE IF depth = 0
    THEN [reader |-> reader, count |-> 0, fills |-> 0,
          selected |-> FALSE, ret |-> NoMask, diverged |-> TRUE]
    ELSE LET r == SelectResult(reader, sel)
             c == CountResult(r.reader, sel, depth - 1)
         IN [reader |-> c.reader, count |-> c.count,
             fills |-> r.fills + c.fills,
             selected |-> TRUE, ret |-> IF c.selected THEN c.ret ELSE r.ret,
             diverged |-> c.diverged]

SelectOnClassCache(d, sel) ==
    /\ pc = "done"
    /\ LET r == SelectResult(domains[d], sel)
       IN /\ domains' = [e \in 1 .. Len(domains) |->
                          [domains[e] EXCEPT
                             !.last_mask = r.reader.last_mask,
                             !.last_selector_id = r.reader.last_selector_id]]
          /\ call' = [op |-> "select", dom |-> d, sel |-> sel,
                      hit |-> r.fills = 0, fills |-> r.fills, ret |-> r.ret,
                      count |-> 0, diverged |-> FALSE]
          /\ returned' = [returned EXCEPT ![d] =
                [mask |-> r.ret,
                 computed_for |-> IF r.fills > 0 THEN sel ELSE @.computed_for]]
    /\ UNCHANGED <<cvars, selectors, kvars>>

\* reader.select(selector) on the reader of domain d.
Select(d, sel) ==
    /\ pc = "done"
    /\ LET r == SelectResult(domains[d], sel)
       IN /\ domains' = [domains EXCEPT ![d] = r.reader]
          /\ call' = [op |-> "select", dom |-> d, sel |-> sel,
                      hit |-> r.fills = 0, fills |-> r.fills, ret |-> r.ret,
                      count |-> 0, diverged |-> FALSE]
          /\ returned' = [returned EXCEPT ![d] =
                [mask |-> r.ret,
                 computed_for |-> IF r.fills > 0 THEN sel ELSE @.computed_for]]
    /\ UNCHANGED <<cvars, selectors, kvars>>

\* reader.count(selector) on the reader of domain d.
Count(d, sel) ==
    /\ pc = "done"
    /\ LET c == CountResult(domains[d], sel, MaxRecursion)
       IN /\ domains' = [domains EXCEPT ![d] = c.reader]
          /\ call' = [op |-> "count", dom |-> d, sel |-> sel,
                      hit |-> ~c.selected, fills |-> c.fills, ret |-> NoMask,
                      count |-> c.count, diverged |-> c.diverged]
          /\ returned' = [returned EXCEPT ![d] =
                [mask |-> IF c.selected THEN c.ret ELSE @.mask,
                 computed_for |-> IF c.fills > 0 THEN sel ELSE @.computed_for]]
    /\ UNCHANGED <<cvars, selectors, kvars>>

\* A caller changes a selector object in place.
MutateSelector(sel, kind) ==
    /\ pc = "done"
    /\ selectors[sel] # kind
    /\ selectors' = [selectors EXCEPT ![sel] = kind]
    /\ UNCHANGED <<cvars, domains, call, returned, kvars>>

\* RAMSESDomainFile(pf, d) constructed anew, beside the handler's readers: the
\* cache attributes the new object shows are the class attributes.
NewReader(d) ==
    /\ pc = "done"
    /\ LET r == DomainFile(d, pf.files[d])
       IN call' = [op |-> "construct", dom |-> d, sel |-> r.last_selector_id,
                   hit |-> FALSE, fills |-> 0, ret |-> r.last_mask,
                   count |-> 0, diverged |-> FALSE]
    /\ UNCHANGED <<cvars, domains, selectors, returned, kvars>>

SelectNext ==
    \/ \E d \in 1 .. Len(domains), sel \in SelectorIds : Select(d, sel)
    \/ \E d \in 1 .. Len(domains), sel \in SelectorIds : Count(d, sel)
    \/ \E sel \in SelectorIds, kind \in Kinds : MutateSelector(sel, kind)

SelectSpec == QueryInit /\ [][SelectNext]_vars

\* ------------------------------------------------- selection and chunking
\* The octs the container holds for a domain: those its add calls handed it.
ContainerOcts(d) ==
    1 .. SumSeq([i \in 1 .. Len(oct_handler.adds) |->
                   IF oct_handler.adds[i].domain = d
                   THEN oct_handler.adds[i].ng ELSE 0])

\* selector.select_octs(self.oct_handler): the mask over the container's octs,
\* each named by its domain and its index within the domain.
SelectOcts(kind) ==
    UNION {{<<d, i>> : i \in {j \in ContainerOcts(d) : Selects(kind, j)}} :
             d \in 1 .. Len(oct_handler.allocated)}

RECURSIVE Ascending(_)
Ascending(S) ==
    IF S = {} THEN <<>>
    ELSE LET m == CHOOSE x \in S : \A y \in S : x <= y
         IN <<m>> \o Ascending(S \ {m})

\* self.oct_handler.count(mask, split = True): per domain, the indices of its
\* selected octs.
Split(mask) ==
    [d \in 1 .. Len(oct_handler.allocated) |->
       Ascending({i \in ContainerOcts(d) : <<d, i>> \in mask})]

\* Cells the container counts for each selected oct.
CellsPerOct == 8

\* self.oct_handler.count_cells(selector, mask)
CountCells(kind, mask) ==
    CellsPerOct * Cardinality({x \in mask : Selects(kind, x[2])})

\* RAMSESDomainSubset(domain, indices)
DomainSubset(dom, indices) == [domain |-> dom.domain_id, indices |-> indices]

KeepAll(cnt) == cnt >= 0

\* if count[dom.domain_id - 1] > 0
KeepDomain(cnt) == cnt > 0

\* [RAMSESDomainSubset(dom, indices[dom.domain_id - 1]) for dom in self.domains
\*  if count[dom.domain_id - 1] > 0]
RECURSIVE Subsets(_, _)
Subsets(doms, indices) ==
    IF doms = <<>> THEN <<>>
    ELSE LET dom == Head(doms)
             rest == Subsets(Tail(doms), indices)
         IN IF KeepDomain(Len(indices[dom.domain_id]))
            THEN <<DomainSubset(dom, indices[dom.domain_id])>> \o rest
            ELSE rest

ChunkPerSubset(dobj) ==
    LET oobjs == IF dobj.current_chunk.set THEN dobj.current_chunk.objs
                 ELSE dobj.chunk_info
    IN IF oobjs = <<>>
       THEN <<[set |-> TRUE, objs |-> oobjs, size |-> dobj.size]>>
       ELSE [k \in 1 .. Len(oobjs) |->
               [set |-> TRUE, objs |-> <<oobjs[k]>>, size |-> dobj.size]]

\* _chunk_all: the chunks the generator yields, YTDataChunk(dobj, "all", oobjs,
\* dobj.size) with oobjs the objs of the current chunk, or _chunk_info when
\* there is no current chunk.
ChunkAll(dobj) ==
    LET oobjs == IF dobj.current_chunk.set THEN dobj.current_chunk.objs
                 ELSE dobj.chunk_info
    IN <<[set |-> TRUE, objs |-> oobjs, size |-> dobj.size]>>

\* _count_selection(dobj, mask, oct_indices) with both given: the cell count.
CountSelection(kind, mask) == CountCells(kind, mask)

MaterializedOnLeftovers(dobj) ==
    LET kind == selectors[dobj.selector]
        mask == SelectOcts(kind)
        indices == Split(mask)
        left == SumSeq([o \in 1 .. Len(dobjs) |->
                          IF dobjs[o].has_chunk_info THEN dobjs[o].size ELSE 0])
        size == CountSelection(kind, mask) + left
    IN [dobj EXCEPT !.has_chunk_info = TRUE,
                    !.chunk_info = Subsets(domains, indices),
                    !.size = size,
                    !.shape = <<size>>,
                    !.selected_as = kind]

AlwaysNeedsChunkInfo(dobj) == TRUE

\* getattr(dobj, "_chunk_info", None) is None
NeedsChunkInfo(dobj) == ~dobj.has_chunk_info

\* The data object after the body of `if getattr(dobj, "_chunk_info", None) is
\* None` in _identify_base_chunk.
Materialized(dobj) ==
    LET kind == selectors[dobj.selector]
        mask == SelectOcts(kind)
        indices == Split(mask)
        size == CountSelection(kind, mask)
    IN [dobj EXCEPT !.has_chunk_info = TRUE,
                    !.chunk_info = Subsets(domains, indices),
                    !.size = size,
                    !.shape = <<size>>,
                    !.selected_as = kind]

\* _identify_base_chunk(dobj)
IdentifyBaseChunk(o) ==
    /\ pc = "done"
    /\ LET fresh == NeedsChunkInfo(dobjs[o])
           dobj == IF fresh THEN Materialized(dobjs[o]) ELSE dobjs[o]
           chunks == ChunkAll(dobj)
       IN /\ dobjs' = [dobjs EXCEPT ![o] =
                         [dobj EXCEPT !.current_chunk = chunks[1]]]
          /\ chunk_call' = [op |-> "identify_base_chunk", dobj |-> o,
                            outcome |-> "returned", chunks |-> chunks,
                            queries |-> IF fresh THEN 3 ELSE 0, count |-> 0,
                      subset |-> NoSubset, result |-> NoResult]
    /\ UNCHANGED <<cvars, domains, svars>>

\* Iterating _chunk_all(dobj) on a data object whose selection is resolved.
ChunkAllCall(o) ==
    /\ pc = "done"
    /\ dobjs[o].has_chunk_info
    /\ chunk_call' = [op |-> "chunk_all", dobj |-> o, outcome |-> "returned",
                      chunks |-> ChunkAll(dobjs[o]), queries |-> 0, count |-> 0,
                      subset |-> NoSubset, result |-> NoResult]
    /\ UNCHANGED <<cvars, domains, svars, dobjs>>

\* _chunk_spatial: raise NotImplementedError.
ChunkSpatial(o) ==
    /\ pc = "done"
    /\ chunk_call' = [op |-> "chunk_spatial", dobj |-> o,
                      outcome |-> "NotImplementedError", chunks |-> <<>>,
                      queries |-> 0, count |-> 0,
                      subset |-> NoSubset, result |-> NoResult]
    /\ UNCHANGED <<cvars, domains, svars, dobjs>>

\* _chunk_io: pass, so the call returns None.
ChunkIo(o) ==
    /\ pc = "done"
    /\ chunk_call' = [op |-> "chunk_io", dobj |-> o,
                      outcome |-> "returned None", chunks |-> <<>>,
                      queries |-> 0, count |-> 0,
                      subset |-> NoSubset, result |-> NoResult]
    /\ UNCHANGED <<cvars, domains, svars, dobjs>>

\* _count_selection(dobj) with no mask and no indices given.
CountSelectionCall(o) ==
    /\ pc = "done"
    /\ LET kind == selectors[dobjs[o].selector]
       IN chunk_call' = [op |-> "count_selection", dobj |-> o,
                         outcome |-> "returned", chunks |-> <<>>,
                         queries |-> 3,
                         count |-> CountCells(kind, SelectOcts(kind)),
                      subset |-> NoSubset, result |-> NoResult]
    /\ UNCHANGED <<cvars, domains, svars, dobjs>>

\* self.oct_handler.<query>(domain_id, indices): the container's answer, named
\* by the query that produces it.
ContainerQuery(query, domain_id, indices) ==
    [query |-> query, domain |-> domain_id, indices |-> indices]

\* A query method of the k-th Domain Subset of a resolved data object was
\* called and returned result (NoResult: it returned None).
SubsetCall(o, k, query, result) ==
    /\ pc = "done"
    /\ dobjs[o].has_chunk_info
    /\ k \in 1 .. Len(dobjs[o].chunk_info)
    /\ chunk_call' = [op |-> query, dobj |-> o,
                      outcome |-> IF result = NoResult THEN "returned None"
                                  ELSE "returned",
                      chunks |-> <<>>,
                      queries |-> IF result = NoResult THEN 0 ELSE 1,
                      count |-> 0,
                      subset |-> dobjs[o].chunk_info[k], result |-> result]
    /\ UNCHANGED <<cvars, domains, svars, dobjs>>

\* RAMSESDomainSubset.icoords:
\* return self.oct_handler.icoords(self.domain.domain_id, self.indices)
Icoords(o, k) ==
    /\ k \in 1 .. Len(dobjs[o].chunk_info)
    /\ LET subset == dobjs[o].chunk_info[k]
       IN SubsetCall(o, k, "icoords",
                     ContainerQuery("icoords", subset.domain, subset.indices))

\* RAMSESDomainSubset.fcoords: pass
Fcoords(o, k) == SubsetCall(o, k, "fcoords", NoResult)

\* RAMSESDomainSubset.fwidth: pass
Fwidth(o, k) == SubsetCall(o, k, "fwidth", NoResult)

\* RAMSESDomainSubset.ires: pass
Ires(o, k) == SubsetCall(o, k, "ires", NoResult)

ChunkNext ==
    \/ \E o \in SelectorIds, k \in 1 .. MaxCpu : Icoords(o, k)
    \/ \E o \in SelectorIds, k \in 1 .. MaxCpu : Fcoords(o, k)
    \/ \E o \in SelectorIds, k \in 1 .. MaxCpu : Fwidth(o, k)
    \/ \E o \in SelectorIds, k \in 1 .. MaxCpu : Ires(o, k)
    \/ \E o \in SelectorIds : IdentifyBaseChunk(o)
    \/ \E o \in SelectorIds : ChunkAllCall(o)
    \/ \E o \in SelectorIds : ChunkSpatial(o)
    \/ \E o \in SelectorIds : ChunkIo(o)
    \/ \E o \in SelectorIds : CountSelectionCall(o)
    \/ \E sel \in SelectorIds, kind \in Kinds : MutateSelector(sel, kind)

ChunkSpec == QueryInit /\ [][ChunkNext]_vars

\* ------------------------------------------------- every query
\* A completed initialize of a snapshot whose first domain holds two octs and
\* every other domain one, the selectors being any.
FrameInit ==
    /\ QueryInit
    /\ \A d \in 1 .. pf.ncpu :
         domains[d].local_oct_count = (IF d = 1 THEN 2 ELSE 1)

\* select and count on the readers, the construction of further readers, and
\* _count_selection, _identify_base_chunk and _chunk_all on the data objects,
\* in any order.
QueryNext ==
    \/ \E d \in 1 .. Len(domains), sel \in SelectorIds : Select(d, sel)
    \/ \E d \in 1 .. Len(domains), sel \in SelectorIds : Count(d, sel)
    \/ \E d \in 1 .. Len(domains) : NewReader(d)
    \/ \E o \in SelectorIds : IdentifyBaseChunk(o)
    \/ \E o \in SelectorIds : ChunkAllCall(o)
    \/ \E o \in SelectorIds : CountSelectionCall(o)

QuerySpec == FrameInit /\ [][QueryNext]_vars

\* ------------------------------------------------------------- claims
AddsFor(domain, level) ==
    {i \in 1 .. Len(oct_handler.adds) :
        oct_handler.adds[i].domain = domain /\ oct_handler.adds[i].level = level}

AddsBy(by, domain, level) ==
    {i \in AddsFor(domain, level) : oct_handler.adds[i].by = by}

\* Both files hold a non-empty batch for (level l, owner o), which both readers
\* accept.
SharedBatch(d1, d2, l, o) ==
    /\ d1 < d2
    /\ DeclaredCount(pf.files[d1].hdr, o, l) > 0
    /\ DeclaredCount(pf.files[d2].hdr, o, l) > 0
    /\ o + 1 >= d1
    /\ o + 1 >= d2

\* C1: after a full initialize, a batch (level, owner o) that two domain files
\* d1 < d2 both hold, with o+1 >= d1 and o+1 >= d2, has been added to the
\* container exactly once, by reader d1 and not by reader d2.
C1_SubmittedExactlyOnce ==
    pc = "done" =>
      \A d1 \in 1 .. pf.ncpu, d2 \in 1 .. pf.ncpu :
        \A l \in Levels(pf.files[d1].hdr), o \in Owners(pf.files[d1].hdr) :
          SharedBatch(d1, d2, l, o) =>
            /\ Cardinality(AddsFor(o + 1, l)) = 1
            /\ Cardinality(AddsBy(d1, o + 1, l)) = 1
            /\ AddsBy(d2, o + 1, l) = {}

\* The _read_amr call of domain d has ended, normally or with an exception.
ReadEnded(d) ==
    \/ \E i \in 1 .. Len(done_reads) : done_reads[i].dom = d
    \/ pc = "failed" /\ rd.dom = d

ReadReturned(d) == \E i \in 1 .. Len(done_reads) : done_reads[i].dom = d

\* The end of the file the ended _read_amr call of domain d had opened.
FileEnd(d) ==
    IF ReadReturned(d) THEN done_reads[d].end
    ELSE <<domains[d].amr_offset + rd.nrecs, rd.tail>>

\* The grid section of that file is exactly the layout its header determines.
ExactLayout(d) ==
    FileEnd(d) = <<domains[d].amr_offset + LayoutRecords(domains[d].amr_header), 0>>

\* C2: _read_amr returns normally only with the cursor at the end of the file;
\* on a file whose grid section is exactly the layout of its header it ends so,
\* and on a shorter or longer file it never returns normally.
C2_ExactConsumption ==
    /\ \A i \in 1 .. Len(done_reads) : done_reads[i].cur = done_reads[i].end
    /\ \A d \in 1 .. pf.ncpu :
         /\ (ReadEnded(d) /\ ExactLayout(d)) => ReadReturned(d)
         /\ (ReadEnded(d) /\ ~ExactLayout(d)) => ~ReadReturned(d)

\* C3: a select call invokes fill_mask exactly when its selector's identity is
\* not the one of the reader's most recent fill_mask call (or there was none);
\* with the same identity it returns the mask the previous select returned and
\* changes nothing; otherwise it returns the selector's mask for the domain and
\* the single cache slot holds that selector and mask.
C3_SelectCache ==
    [][\A d \in 1 .. Len(domains), sel \in SelectorIds :
         Select(d, sel) =>
           /\ call'.fills \in {0, 1}
           /\ (call'.fills = 1) <=> (sel # returned[d].computed_for)
           /\ sel = returned[d].computed_for =>
                /\ call'.ret = returned[d].mask
                /\ domains'[d] = domains[d]
           /\ sel # returned[d].computed_for =>
                /\ call'.ret = FillMask(selectors[sel], domains[d])
                /\ domains'[d].last_selector_id = sel
                /\ domains'[d].last_mask = call'.ret]_vars

C3_Witness ==
    /\ call.op = "select"
    /\ call.hit
    /\ call.fills = 0
    /\ ~call.ret.none
    /\ returned[call.dom].computed_for = call.sel

\* C4: count terminates, calls fill_mask at most once and returns the
\* population count of the cached mask (0 for None) when the selector's
\* identity is the cached one; otherwise the population count of the mask
\* select computes, the cache slot then holding that selector and mask.
C4_Count ==
    [][\A d \in 1 .. Len(domains), sel \in SelectorIds :
         Count(d, sel) =>
           /\ ~call'.diverged
           /\ call'.fills <= 1
           /\ IF sel = domains[d].last_selector_id
              THEN /\ call'.count = (IF domains[d].last_mask.none THEN 0
                                     ELSE Cardinality(domains[d].last_mask.bits))
                   /\ call'.fills = 0
                   /\ domains'[d] = domains[d]
              ELSE LET m == FillMask(selectors[sel], domains[d])
                   IN /\ call'.count = (IF m.none THEN 0 ELSE Cardinality(m.bits))
                      /\ domains'[d].last_selector_id = sel
                      /\ domains'[d].last_mask = m]_vars

C4_Witness ==
    /\ call.op = "count"
    /\ ~call.hit
    /\ call.fills = 1
    /\ call.count = 2
    /\ domains[call.dom].last_selector_id = call.sel

\* C5: the grid count _read_amr uses for (level, owner) is the header's numbl
\* entry for a real domain and ngridbound[owner - ncpu + nboundary * level] for
\* a boundary owner.
C5_GridCountLookup ==
    last.dom # 0 =>
      /\ ~last.raised
      /\ last.ng = DeclaredCount(domains[last.dom].amr_header, last.cpu, last.level)

\* C6: every header is parsed before the single preallocation, whose list holds
\* at index i the local_oct_count of the reader of domain i+1; no add and no
\* _read_amr comes before it; the readers populate one after the other in
\* ascending domain_id order, each once.
C6_InitializeOrder ==
    /\ oct_handler.nalloc <= 1
    /\ oct_handler.nalloc = 1 =>
         /\ Len(domains) = pf.ncpu
         /\ Len(oct_handler.allocated) = pf.ncpu
         /\ \A i \in 1 .. pf.ncpu :
              /\ domains[i].domain_id = i
              /\ oct_handler.allocated[i] =
                   LocalOctCount(pf.files[i].hdr, i)
    /\ (oct_handler.adds # <<>> \/ rd # NoRead \/ done_reads # <<>>) =>
         oct_handler.nalloc = 1
    /\ \A i \in 1 .. Len(done_reads) : done_reads[i].dom = i
    /\ rd # NoRead => rd.dom = Len(done_reads) + 1
    /\ \A i \in 1 .. Len(oct_handler.adds) :
         /\ oct_handler.adds[i].by <= Len(done_reads) + 1
         /\ \A j \in 1 .. i : oct_handler.adds[j].by <= oct_handler.adds[i].by
    /\ pc = "done" => Len(done_reads) = pf.ncpu /\ oct_handler.nalloc = 1

C6_Witness ==
    /\ pc = "done"
    /\ pf.ncpu >= 2
    /\ oct_handler.allocated[1] # oct_handler.allocated[2]
    /\ \E i, j \in 1 .. Len(oct_handler.adds) :
         oct_handler.adds[i].by # oct_handler.adds[j].by

\* C7: when the sum of the local oct counts differs from the count the
\* container reports, whatever that is, 0 included, initialize prints both
\* and completes normally.
C7_MismatchNonFatal ==
    stdout # <<>> =>
      /\ stdout[1] = <<"TOTAL", TotalOcts(domains), oct_handler.nocts>>
      /\ pc = "done"
      /\ error = None

C7_Witness ==
    /\ pc = "done"
    /\ stdout # <<>>
    /\ oct_handler.nocts = 0
    /\ TotalOcts(domains) > 0

\* C8: resolving a selection builds exactly one Domain Subset for each domain
\* whose index list in the split oct mask is non-empty and none for the others,
\* in ascending domain_id order, each with its domain's index list, and the
\* size is the container's cell count for the selector and mask.
C8_ResolveSelection ==
    [][\A o \in SelectorIds :
         (IdentifyBaseChunk(o) /\ ~dobjs[o].has_chunk_info) =>
           LET kind == selectors[dobjs[o].selector]
               mask == SelectOcts(kind)
               split == Split(mask)
               info == dobjs'[o].chunk_info
           IN /\ dobjs'[o].has_chunk_info
              /\ \A d \in 1 .. pf.ncpu :
                   Cardinality({k \in 1 .. Len(info) : info[k].domain = d}) =
                     (IF split[d] # <<>> THEN 1 ELSE 0)
              /\ \A k \in 1 .. Len(info) :
                   /\ info[k].domain \in 1 .. pf.ncpu
                   /\ info[k].indices = split[info[k].domain]
                   /\ \A j \in 1 .. (k - 1) : info[j].domain < info[k].domain
              /\ dobjs'[o].size = CountCells(kind, mask)]_vars

C8_Witness ==
    /\ chunk_call.op = "identify_base_chunk"
    /\ chunk_call.queries > 0
    /\ pf.ncpu = 2
    /\ LET info == dobjs[chunk_call.dobj].chunk_info
       IN /\ Len(info) = 1
          /\ info[1].domain = 2
          /\ info[1].indices = <<1, 2>>
    /\ dobjs[chunk_call.dobj].size = 2 * CellsPerOct

\* C9: chunking a resolved selection as a whole yields exactly one chunk, which
\* holds all the Domain Subsets of the selection and its cell count, the first
\* time and every later time.
C9_OneChunk ==
    [][\A o \in SelectorIds :
         (IdentifyBaseChunk(o) \/ ChunkAllCall(o)) =>
           /\ Len(chunk_call'.chunks) = 1
           /\ chunk_call'.chunks[1].objs = dobjs'[o].chunk_info
           /\ chunk_call'.chunks[1].size = dobjs'[o].size]_vars

C9_Witness ==
    /\ chunk_call.op = "chunk_all"
    /\ dobjs[chunk_call.dobj].current_chunk.set
    /\ Len(chunk_call.chunks) = 1
    /\ Len(chunk_call.chunks[1].objs) = 2

\* C10: a request for spatial chunking and a request for I/O chunking each end
\* in a not-supported error, never in a normal return.
C10_Unsupported ==
    chunk_call.op \in {"chunk_spatial", "chunk_io"} =>
      chunk_call.outcome = "NotImplementedError"

\* The octs handed to the container under owning domain k.
OctsUnder(k) ==
    SumSeq([i \in 1 .. Len(oct_handler.adds) |->
              IF oct_handler.adds[i].domain = k THEN oct_handler.adds[i].ng
              ELSE 0])

\* C11: during population no two readers add to the same per-domain slot of
\* the container: every add under an owning domain comes from one reader.
C11_DisjointSlots ==
    \A i, j \in 1 .. Len(oct_handler.adds) :
      oct_handler.adds[i].domain = oct_handler.adds[j].domain =>
        oct_handler.adds[i].by = oct_handler.adds[j].by

\* C12: once header parsing or populate has failed for a domain, construction
\* has ended with that error: no step follows, no later domain was populated,
\* nothing was printed and the handler never reaches the state queries need.
C12_FailureAborts ==
    /\ [](error # None =>
            /\ pc = "failed"
            /\ stdout = <<>>
            /\ Len(done_reads) < pf.ncpu
            /\ error = "CorruptHeaderError" =>
                 /\ oct_handler = NoContainer
                 /\ rd = NoRead
                 /\ done_reads = <<>>
            /\ error # "CorruptHeaderError" =>
                 /\ rd # NoRead
                 /\ Len(done_reads) = rd.dom - 1
                 /\ \A i \in 1 .. Len(oct_handler.adds) :
                      oct_handler.adds[i].by <= rd.dom)
    /\ [][pc # "failed"]_vars

C12_Witness ==
    /\ pc = "failed"
    /\ error = "AssertionError"
    /\ pf.ncpu = 2
    /\ rd.dom = 1
    /\ oct_handler.adds # <<>>

\* C16: a pair whose grid count is 0 moves the cursor by nothing and submits
\* nothing; a pair whose grid count is positive moves it by the 37 framed
\* records of a batch, submitted or not, and is submitted exactly when
\* owner_index + 1 >= domain_id.
C16_FixedConsumption ==
    /\ (last.dom # 0 /\ ~last.raised /\ error # "EndOfFileError") =>
         /\ last.ng = 0 => (last.after = last.before /\ ~last.added)
         /\ last.ng > 0 =>
              /\ last.after = last.before + 37
              /\ last.added <=> (last.cpu + 1 >= last.dom)
              /\ last.added =>
                   oct_handler.adds[Len(oct_handler.adds)] =
                     [by |-> last.dom, domain |-> last.cpu + 1,
                      level |-> last.level, ng |-> last.ng]
    /\ (rd # NoRead /\ last.dom = rd.dom /\ error = None) =>
         rd.cursor = last.after

C16_Witness ==
    /\ error = None
    /\ last.ng > 0
    /\ ~last.added
    /\ last.after = last.before + 37
    /\ rd.cursor = last.after
    /\ \E i \in 1 .. Len(oct_handler.adds) : oct_handler.adds[i].by # last.dom

\* C18: after initialize every add names a real domain, and the octs handed to
\* the container under each domain fit the capacity preallocated for it.
C18_WithinCapacity ==
    pc = "done" =>
      /\ \A i \in 1 .. Len(oct_handler.adds) :
           oct_handler.adds[i].domain \in 1 .. pf.ncpu
      /\ \A k \in 1 .. pf.ncpu : OctsUnder(k) <= oct_handler.allocated[k]

\* C17: the mask a select call returns is the mask the selector would compute
\* for the domain at the time of the call, whatever calls and in-place changes
\* of the selector came before.
C17_MaskIsCurrent ==
    [][\A d \in 1 .. Len(domains), sel \in SelectorIds :
         Select(d, sel) =>
           call'.ret = FillMask(selectors[sel], domains[d])]_vars

\* C20: a select or count on one reader leaves the cache slot, and all else,
\* of every other reader as it was, and a reader constructed after any calls
\* on other readers shows no cached identity and no cached mask.
C20_IndependentCaches ==
    [][/\ \A d \in 1 .. Len(domains), sel \in SelectorIds :
            (Select(d, sel) \/ Count(d, sel)) =>
              \A e \in (1 .. Len(domains)) \ {d} : domains'[e] = domains[e]
       /\ \A d \in 1 .. Len(domains) :
            NewReader(d) => (call'.ret = NoMask /\ call'.sel = NoId)]_vars

C20_Witness ==
    /\ pf.ncpu = 2
    /\ domains[1].last_selector_id = 1
    /\ domains[2].last_selector_id = 2
    /\ ~domains[1].last_mask.none
    /\ domains[2].last_mask.none
    /\ call.op = "construct"
    /\ call.sel = NoId

\* C13: each of the four queries of a Domain Subset returns the container's
\* answer to the same query for the subset's domain_id and indices.
C13_SubsetDelegates ==
    chunk_call.op \in {"icoords", "fcoords", "fwidth", "ires"} =>
      /\ chunk_call.outcome = "returned"
      /\ chunk_call.result =
           ContainerQuery(chunk_call.op, chunk_call.subset.domain,
                          chunk_call.subset.indices)

\* C15: two data objects whose distinct selector objects selected the same
\* when each was resolved, over the same container, hold the same cell count
\* and the same Domain Subsets (domains and index lists), whichever was
\* resolved first.
C15_EquivalentSelectors ==
    \A o1 \in SelectorIds, o2 \in SelectorIds :
      (/\ dobjs[o1].selector # dobjs[o2].selector
       /\ dobjs[o1].has_chunk_info
       /\ dobjs[o2].has_chunk_info
       /\ dobjs[o1].selected_as = dobjs[o2].selected_as) =>
        /\ dobjs[o1].size = dobjs[o2].size
        /\ dobjs[o1].chunk_info = dobjs[o2].chunk_info

C15_Witness ==
    /\ pf.ncpu = 2
    /\ dobjs[1].selector # dobjs[2].selector
    /\ dobjs[1].has_chunk_info
    /\ dobjs[2].has_chunk_info
    /\ dobjs[1].selected_as = "first"
    /\ dobjs[2].selected_as = "first"
    /\ Len(dobjs[2].chunk_info) = 2
    /\ dobjs[2].size = 2 * CellsPerOct

\* C19: _identify_base_chunk on a data object whose selection is resolved
\* leaves _chunk_info, size and shape as they are and asks the container
\* nothing, whatever the selector selects by then; the current chunk it sets
\* holds the stored subsets and size.
C19_ResolvedOnce ==
    [][\A o \in SelectorIds :
         (IdentifyBaseChunk(o) /\ dobjs[o].has_chunk_info) =>
           /\ dobjs'[o].has_chunk_info
           /\ dobjs'[o].chunk_info = dobjs[o].chunk_info
           /\ dobjs'[o].size = dobjs[o].size
           /\ dobjs'[o].shape = dobjs[o].shape
           /\ chunk_call'.queries = 0
           /\ dobjs'[o].current_chunk =
                [set |-> TRUE, objs |-> dobjs[o].chunk_info,
                 size |-> dobjs[o].size]]_vars

C19_Witness ==
    /\ chunk_call.op = "identify_base_chunk"
    /\ chunk_call.queries = 0
    /\ LET dobj == dobjs[chunk_call.dobj]
       IN /\ dobj.has_chunk_info
          /\ dobj.selected_as # selectors[dobj.selector]
          /\ dobj.chunk_info # Materialized(NewDataObject(dobj.selector)).chunk_info
          /\ dobj.current_chunk.objs = dobj.chunk_info

\* C14: after initialize no select, count, resolve or chunk operation changes
\* a reader's domain_id, header, amr_offset or local_oct_count, starts a
\* _read_amr, or hands anything to the container: of the readers only the
\* cache slots (last selector identity, last mask) change.
C14_ReadersFrozen ==
    [][/\ Len(domains') = Len(domains)
       /\ \A d \in 1 .. Len(domains) :
            /\ domains'[d].domain_id = domains[d].domain_id
            /\ domains'[d].amr_header = domains[d].amr_header
            /\ domains'[d].amr_offset = domains[d].amr_offset
            /\ domains'[d].local_oct_count = domains[d].local_oct_count
       /\ rd' = rd
       /\ done_reads' = done_reads
       /\ last' = last
       /\ oct_handler' = oct_handler]_vars

C14_Witness ==
    /\ \E d \in 1 .. Len(domains) :
         /\ domains[d].last_selector_id # NoId
         /\ ~domains[d].last_mask.none
    /\ call.op = "count"
    /\ chunk_call.op = "chunk_all"
    /\ \E o \in SelectorIds : dobjs[o].current_chunk.set
    /\ oct_handler.adds # <<>>

====
